---- MODULE Spec2Model ----
(***************************************************************************)
(* A model of TweetCacheManager (src/tweet_cache_manager.py): a per-user   *)
(* JSON file cache of tweets with hash-based deduplication, a capacity cap *)
(* and a freshness policy.                                                 *)
(*                                                                         *)
(* Python strings are modelled as sequences of one-character strings and   *)
(* compared by code point, as Python compares them.  A datetime is a count *)
(* of hours; its ISO text is that count written with two zero-padded       *)
(* digits (ISO texts are fixed-width, which is why they sort by time).     *)
(* A file holds the JSON value that json.dump wrote: for the values used   *)
(* here (objects with string keys, lists, strings, integers, null)         *)
(* json.load returns the value json.dump was given.                        *)
(* A raised Python exception is an outcome with raised = TRUE.             *)
(***************************************************************************)
EXTENDS Integers, Sequences, FiniteSets, TLC

VARIABLES files, now, last, pending

vars == <<files, now, last, pending>>

(***************************************************************************)
(* Bounds of the model.                                                    *)
(***************************************************************************)
\* The cap on tweets kept per user.  The source keeps 100
\* (merged_tweets[:100]); the model keeps CacheCap so that the cap is
\* reached and exceeded by small batches.
CacheCap == 2

\* Longest batch handed to merge_new_tweets (more than CacheCap distinct
\* tweets fit in one batch).
MaxBatch == 3

\* The clock runs from StartHour to MaxNow.
StartHour == 48

MaxNow == 49

\* timedelta(days = d) in hours.
HoursPerDay == 24

(***************************************************************************)
(* Strings.                                                                *)
(***************************************************************************)
\* The characters used, in ascending code point order.
Alphabet ==
    <<" ", "+", "0", "1", "2", "3", "4", "5", "6", "7", "8", "9", ":",
      "N", "W", "Z", "a", "b", "e", "g", "h", "i", "m", "n", "o", "r", "v",
      "y">>

Ord(c) == CHOOSE i \in 1..Len(Alphabet) : Alphabet[i] = c

Digit(c) == c \in {"0", "1", "2", "3", "4", "5", "6", "7", "8", "9"}

DigitVal(c) == Ord(c) - Ord("0")

DigitChr(n) == Alphabet[Ord("0") + n]

RECURSIVE StrLess(_, _)
\* Python's a < b on str: lexicographic by code point.
StrLess(a, b) ==
    IF b = <<>> THEN FALSE
    ELSE IF a = <<>> THEN TRUE
    ELSE IF Head(a) # Head(b) THEN Ord(Head(a)) < Ord(Head(b))
    ELSE StrLess(Tail(a), Tail(b))

StartsWith(s, p) == Len(s) >= Len(p) /\ SubSeq(s, 1, Len(p)) = p

RECURSIVE Replace(_, _, _)
\* Python's s.replace(old, new) for a non-empty old: left to right, no overlap.
Replace(s, old, new) ==
    IF Len(s) < Len(old) THEN s
    ELSE IF StartsWith(s, old)
         THEN new \o Replace(SubSeq(s, Len(old) + 1, Len(s)), old, new)
         ELSE <<Head(s)>> \o Replace(Tail(s), old, new)

(***************************************************************************)
(* JSON values of the fields the code reads.                               *)
(***************************************************************************)
JStr(s) == [t |-> "str", s |-> s, n |-> 0]

JNull == [t |-> "null", s |-> <<>>, n |-> 0]

JNum(n) == [t |-> "num", s |-> <<>>, n |-> n]

\* The key is not in the dict.
JMissing == [t |-> "missing", s |-> <<>>, n |-> 0]

\* dict.get(key, default)
Get(v, default) == IF v.t = "missing" THEN default ELSE v

\* Python truthiness of a value read from JSON.
Truthy(v) ==
    CASE v.t = "str" -> v.s # <<>>
      [] v.t = "num" -> v.n # 0
      [] OTHER -> FALSE

RECURSIVE NatStr(_)
NatStr(n) == IF n < 10 THEN <<DigitChr(n)>> ELSE NatStr(n \div 10) \o <<DigitChr(n % 10)>>

\* What an f-string writes for a value.
Format(v) ==
    CASE v.t = "str" -> v.s
      [] v.t = "num" -> NatStr(v.n)
      [] OTHER -> <<"N", "o", "n", "e">>

(***************************************************************************)
(* datetime.                                                               *)
(***************************************************************************)
\* datetime.isoformat() of a naive datetime.
IsoFormat(h) == <<DigitChr(h \div 10), DigitChr(h % 10)>>

UtcSuffix == <<"+", "0", "0", ":", "0", "0">>

\* datetime.fromisoformat(v): a TypeError for a non-string, a ValueError for a
\* string that is no ISO text; an ISO text with a UTC offset gives an aware
\* datetime.
FromIsoFormat(v) ==
    LET bad == [raised |-> TRUE, aware |-> FALSE, h |-> 0]
        hour(s) == 10 * DigitVal(s[1]) + DigitVal(s[2])
    IN  IF v.t # "str" THEN bad
        ELSE IF Len(v.s) < 2 \/ ~Digit(v.s[1]) \/ ~Digit(v.s[2]) THEN bad
        ELSE IF Len(v.s) = 2 THEN [raised |-> FALSE, aware |-> FALSE, h |-> hour(v.s)]
        ELSE IF SubSeq(v.s, 3, Len(v.s)) = UtcSuffix
             THEN [raised |-> FALSE, aware |-> TRUE, h |-> hour(v.s)]
        ELSE bad

(***************************************************************************)
(* Tweets and cache files.                                                 *)
(***************************************************************************)
Tweet(u, x, c, likes) ==
    [username |-> u, text |-> x, created_at |-> c, like_count |-> likes]

\* A JSON list of tweet dicts, or what stands in its place in a file.
TweetList(items) == [t |-> "list", items |-> items]

NullTweets == [t |-> "null", items |-> <<>>]

MissingTweets == [t |-> "missing", items |-> <<>>]

\* No file <username>_tweets.json in the cache directory.
AbsentFile ==
    [kind |-> "absent", tweets |-> MissingTweets,
     last_updated |-> JMissing, total_tweets |-> JMissing]

\* A file whose text json.load cannot decode (a truncated write).
CorruptFile ==
    [kind |-> "corrupt", tweets |-> MissingTweets,
     last_updated |-> JMissing, total_tweets |-> JMissing]

\* A file holding valid JSON that is not an object (a list).
NonObjectFile ==
    [kind |-> "nonobject", tweets |-> MissingTweets,
     last_updated |-> JMissing, total_tweets |-> JMissing]

\* A file holding a JSON object with these fields.
ObjectFile(tweets, last_updated, total_tweets) ==
    [kind |-> "object", tweets |-> tweets,
     last_updated |-> last_updated, total_tweets |-> total_tweets]

\* {"tweets": [], "last_updated": None}
EmptyCache ==
    [obj |-> TRUE, tweets |-> TweetList(<<>>), last_updated |-> JNull,
     total_tweets |-> JMissing]

\* hashlib.md5 of the content, taken to be collision free: the digest is
\* modelled by the content it digests.
get_tweet_hash(username, tweet_text, created_at) ==
    Format(username) \o <<":">> \o Format(tweet_text) \o <<":">> \o Format(created_at)

\* The hash merge_new_tweets computes for a stored or an incoming tweet.
TweetHash(tweet) ==
    get_tweet_hash(Get(tweet.username, JStr(<<>>)),
                   Get(tweet.text, JStr(<<>>)),
                   Get(tweet.created_at, JStr(<<>>)))

\* load_user_cache without its try/except: a file that cannot be decoded raises.
load_user_cache_unguarded(fs, username) ==
    LET f == fs[username]
    IN  IF f.kind = "absent" THEN [raised |-> FALSE, value |-> EmptyCache]
        ELSE IF f.kind = "corrupt" THEN [raised |-> TRUE, value |-> EmptyCache]
        ELSE [raised |-> FALSE,
              value |-> [obj |-> f.kind = "object", tweets |-> f.tweets,
                         last_updated |-> f.last_updated,
                         total_tweets |-> f.total_tweets]]

load_user_cache(fs, username) ==
    LET f == fs[username]
    IN  IF f.kind = "absent" THEN [raised |-> FALSE, value |-> EmptyCache]
        ELSE IF f.kind = "corrupt" THEN [raised |-> FALSE, value |-> EmptyCache]
        ELSE [raised |-> FALSE,
              value |-> [obj |-> f.kind = "object", tweets |-> f.tweets,
                         last_updated |-> f.last_updated,
                         total_tweets |-> f.total_tweets]]

\* What the write of save_user_cache can do: succeed; fail in open(), which
\* leaves the file as it was; fail in json.dump after open() truncated the
\* file, which leaves undecodable text.
IoOutcomes == {"ok", "open_fails", "write_fails"}

\* A save that names the file after the username field of the first tweet
\* it is given.
save_user_cache_by_author(fs, username, tweets_data, t, io) ==
    LET author == IF tweets_data # <<>> /\ tweets_data[1].username.s \in DOMAIN fs
                  THEN tweets_data[1].username.s
                  ELSE username
        cache_data == ObjectFile(TweetList(tweets_data), JStr(IsoFormat(t)),
                                 JNum(Len(tweets_data)))
    IN  [raised |-> FALSE,
         ret |-> JNull,
         files |-> CASE io = "ok" -> [fs EXCEPT ![author] = cache_data]
                     [] io = "open_fails" -> fs
                     [] OTHER -> [fs EXCEPT ![author] = CorruptFile]]

\* save_user_cache without its try/except: a failed write raises.
save_user_cache_raising(fs, username, tweets_data, t, io) ==
    LET cache_data == ObjectFile(TweetList(tweets_data), JStr(IsoFormat(t)),
                                 JNum(Len(tweets_data)))
    IN  [raised |-> io # "ok",
         ret |-> JNull,
         files |-> CASE io = "ok" -> [fs EXCEPT ![username] = cache_data]
                     [] io = "open_fails" -> fs
                     [] OTHER -> [fs EXCEPT ![username] = CorruptFile]]

\* save_user_cache with "total_tweets" left as the file had it.
save_user_cache_stale_count(fs, username, tweets_data, t, io) ==
    LET cache_data == ObjectFile(TweetList(tweets_data), JStr(IsoFormat(t)),
                                 Get(fs[username].total_tweets, JNum(0)))
    IN  [raised |-> FALSE,
         ret |-> JNull,
         files |-> CASE io = "ok" -> [fs EXCEPT ![username] = cache_data]
                     [] io = "open_fails" -> fs
                     [] OTHER -> [fs EXCEPT ![username] = CorruptFile]]

save_user_cache(fs, username, tweets_data, t, io) ==
    LET cache_data == ObjectFile(TweetList(tweets_data), JStr(IsoFormat(t)),
                                 JNum(Len(tweets_data)))
    IN  [raised |-> FALSE,
         ret |-> JNull,
         files |-> CASE io = "ok" -> [fs EXCEPT ![username] = cache_data]
                     [] io = "open_fails" -> fs
                     [] OTHER -> [fs EXCEPT ![username] = CorruptFile]]

\* The key list.sort orders by: x.get('created_at', '')
SortKey(tweet) == Get(tweet.created_at, JStr(<<>>))

\* list.sort compares every element of a list of two or more with another;
\* comparing None with a str or with None is a TypeError.
SortRaises(tweets) ==
    Len(tweets) >= 2 /\ \E i \in 1..Len(tweets) : SortKey(tweets[i]).t # "str"

RECURSIVE InsertBeforeEqual(_, _)
\* An insertion that puts a tweet in front of those with an equal key.
InsertBeforeEqual(sorted, tweet) ==
    IF sorted = <<>> THEN <<tweet>>
    ELSE IF ~StrLess(SortKey(tweet).s, SortKey(Head(sorted)).s)
         THEN <<tweet>> \o sorted
         ELSE <<Head(sorted)>> \o InsertBeforeEqual(Tail(sorted), tweet)

RECURSIVE InsertNewestFirst(_, _)
InsertNewestFirst(sorted, tweet) ==
    IF sorted = <<>> THEN <<tweet>>
    ELSE IF StrLess(SortKey(Head(sorted)).s, SortKey(tweet).s)
         THEN <<tweet>> \o sorted
         ELSE <<Head(sorted)>> \o InsertNewestFirst(Tail(sorted), tweet)

\* merge_new_tweets without its sort.
SortOff(tweets) == tweets

RECURSIVE SortNewestFirst(_)
\* list.sort(key = created_at, reverse = True): a stable sort, so tweets with
\* equal keys keep their order.
SortNewestFirst(tweets) ==
    IF tweets = <<>> THEN <<>>
    ELSE InsertNewestFirst(SortNewestFirst(SubSeq(tweets, 1, Len(tweets) - 1)),
                           tweets[Len(tweets)])

\* A slice that keeps everything.
TruncateOff(tweets, n) == tweets

\* tweets[-n:]: a slice that keeps the end of the list.
TruncateTail(tweets, n) ==
    SubSeq(tweets, IF Len(tweets) > n THEN Len(tweets) - n + 1 ELSE 1, Len(tweets))

\* tweets[:n]
Truncate(tweets, n) == SubSeq(tweets, 1, IF Len(tweets) < n THEN Len(tweets) ELSE n)

RECURSIVE AppendNewNoAdd(_, _, _)
\* The loop without existing_hashes.add(tweet_hash).
AppendNewNoAdd(hashes, new_tweets, appended) ==
    IF new_tweets = <<>> THEN appended
    ELSE IF TweetHash(Head(new_tweets)) \notin hashes
         THEN AppendNewNoAdd(hashes, Tail(new_tweets), Append(appended, Head(new_tweets)))
         ELSE AppendNewNoAdd(hashes, Tail(new_tweets), appended)

\* The loop with the hash test left out: every incoming tweet is appended.
AppendAll(hashes, new_tweets, appended) == appended \o new_tweets

RECURSIVE AppendNew(_, _, _)
\* The loop over new_tweets: a tweet whose hash is not yet in the set is
\* appended and its hash added.
AppendNew(hashes, new_tweets, appended) ==
    IF new_tweets = <<>> THEN appended
    ELSE LET tweet == Head(new_tweets)
             tweet_hash == TweetHash(tweet)
         IN  IF tweet_hash \notin hashes
             THEN AppendNew(hashes \cup {tweet_hash}, Tail(new_tweets),
                            Append(appended, tweet))
             ELSE AppendNew(hashes, Tail(new_tweets), appended)

\* The outcome of a call that raised: nothing returned, the files as they are.
MergeRaised(fs) ==
    [raised |-> TRUE, tweets |-> <<>>, new_count |-> 0, files |-> fs]

\* The merge that starts from an empty list instead of the stored tweets.
merged_tweets_batch_only(fs, username, new_tweets) ==
    LET appended == AppendNew({}, new_tweets, <<>>)
    IN  IF SortRaises(appended)
        THEN [raised |-> TRUE, tweets |-> <<>>, new_count |-> 0]
        ELSE [raised |-> FALSE,
              tweets |-> Truncate(SortNewestFirst(appended), CacheCap),
              new_count |-> Len(appended)]

\* merge_new_tweets up to its save (lines 63 to 96): the list it is about to
\* store and the count it is about to return.
merged_tweets(fs, username, new_tweets) ==
    LET loaded == load_user_cache(fs, username)
        existing_cache == loaded.value
        failed == [raised |-> TRUE, tweets |-> <<>>, new_count |-> 0]
    IN  IF loaded.raised THEN failed
        ELSE IF ~existing_cache.obj THEN failed
        ELSE LET existing_tweets ==
                     IF existing_cache.tweets.t = "missing" THEN TweetList(<<>>)
                     ELSE existing_cache.tweets
             IN  IF existing_tweets.t # "list" THEN failed
                 ELSE LET existing_hashes ==
                              {TweetHash(existing_tweets.items[i]) :
                                  i \in 1..Len(existing_tweets.items)}
                          appended == AppendNew(existing_hashes, new_tweets, <<>>)
                          merged == existing_tweets.items \o appended
                      IN  IF SortRaises(merged) THEN failed
                          ELSE [raised |-> FALSE,
                                tweets |-> Truncate(SortNewestFirst(merged), CacheCap),
                                new_count |-> Len(appended)]

\* merge_new_tweets that saves only when it appended something.
merge_new_tweets_lazy(fs, username, new_tweets, t, io) ==
    LET m == merged_tweets(fs, username, new_tweets)
    IN  IF m.raised THEN MergeRaised(fs)
        ELSE [raised |-> FALSE, tweets |-> m.tweets, new_count |-> m.new_count,
              files |-> IF m.new_count = 0 THEN fs
                        ELSE save_user_cache(fs, username, m.tweets, t, io).files]

merge_new_tweets(fs, username, new_tweets, t, io) ==
    LET m == merged_tweets(fs, username, new_tweets)
    IN  IF m.raised THEN MergeRaised(fs)
        ELSE LET saved == save_user_cache(fs, username, m.tweets, t, io)
             IN  [raised |-> saved.raised, tweets |-> m.tweets,
                  new_count |-> m.new_count, files |-> saved.files]

\* needs_fresh_data with its three answers changed: what it returns for a
\* falsy last_updated, what its except returns, what it returns at the cutoff.
NeedsFreshVariant(fs, username, max_age_hours, t, never_cached, on_except, at_cutoff) ==
    LET cache_data == load_user_cache(fs, username).value
        last_update_time == FromIsoFormat(cache_data.last_updated)
    IN  IF ~cache_data.obj THEN [raised |-> TRUE, ret |-> FALSE]
        ELSE IF ~Truthy(cache_data.last_updated) THEN [raised |-> FALSE, ret |-> never_cached]
        ELSE IF last_update_time.raised \/ last_update_time.aware
             THEN [raised |-> FALSE, ret |-> on_except]
        ELSE [raised |-> FALSE,
              ret |-> \/ last_update_time.h < t - max_age_hours
                      \/ at_cutoff /\ last_update_time.h = t - max_age_hours]

\* return last_update_time <= cutoff_time
needs_fresh_data_inclusive(fs, username, max_age_hours, t) ==
    NeedsFreshVariant(fs, username, max_age_hours, t, TRUE, TRUE, TRUE)

\* if not last_updated: return False
needs_fresh_data_trusting(fs, username, max_age_hours, t) ==
    NeedsFreshVariant(fs, username, max_age_hours, t, FALSE, TRUE, FALSE)

\* except: return False
needs_fresh_data_fail_closed(fs, username, max_age_hours, t) ==
    NeedsFreshVariant(fs, username, max_age_hours, t, TRUE, FALSE, FALSE)

\* return last_update_time > cutoff_time
needs_fresh_data_inverted(fs, username, max_age_hours, t) ==
    LET cache_data == load_user_cache(fs, username).value
        last_update_time == FromIsoFormat(cache_data.last_updated)
    IN  IF ~cache_data.obj THEN [raised |-> TRUE, ret |-> FALSE]
        ELSE IF ~Truthy(cache_data.last_updated) THEN [raised |-> FALSE, ret |-> TRUE]
        ELSE IF last_update_time.raised \/ last_update_time.aware
             THEN [raised |-> FALSE, ret |-> TRUE]
        ELSE [raised |-> FALSE, ret |-> last_update_time.h > t - max_age_hours]

needs_fresh_data(fs, username, max_age_hours, t) ==
    LET loaded == load_user_cache(fs, username)
        cache_data == loaded.value
    IN  IF loaded.raised \/ ~cache_data.obj THEN [raised |-> TRUE, ret |-> FALSE]
        ELSE LET last_updated == cache_data.last_updated
                 last_update_time == FromIsoFormat(last_updated)
                 cutoff_time == t - max_age_hours
             IN  IF ~Truthy(last_updated) THEN [raised |-> FALSE, ret |-> TRUE]
                 ELSE IF last_update_time.raised \/ last_update_time.aware
                      THEN [raised |-> FALSE, ret |-> TRUE]
                 ELSE [raised |-> FALSE, ret |-> last_update_time.h < cutoff_time]

\* The expression in the try block of the age filters:
\* datetime.fromisoformat(tweet.get('created_at', '').replace('Z', '+00:00')
\*                                                   .replace(' +0000', '+00:00'))
\* None has no replace (an AttributeError).
TweetTime(tweet) ==
    LET created_at == Get(tweet.created_at, JStr(<<>>))
    IN  IF created_at.t # "str" THEN [raised |-> TRUE, aware |-> FALSE, h |-> 0]
        ELSE FromIsoFormat(JStr(Replace(Replace(created_at.s, <<"Z">>, UtcSuffix),
                                        <<" ", "+", "0", "0", "0", "0">>, UtcSuffix)))

\* try: tweet_time > cutoff_time, except: keep.  Comparing an aware
\* tweet_time with the naive cutoff_time is a TypeError, caught like a
\* parse failure.
IsFresh(tweet, cutoff_time) ==
    LET tweet_time == TweetTime(tweet)
    IN  IF tweet_time.raised \/ tweet_time.aware THEN TRUE
        ELSE tweet_time.h > cutoff_time

FreshTweets(tweets, cutoff_time) ==
    LET Keep(tweet) == IsFresh(tweet, cutoff_time)
    IN  SelectSeq(tweets, Keep)

\* The number of tweets a user contributes to a category at most.  The
\* source takes fresh_tweets[:20]; the model takes UserCap, below CacheCap as
\* 20 is below 100.
UserCap == 1

RECURSIVE CategoryTweetsUncapped(_, _, _, _)
\* The loop with category_tweets.extend(fresh_tweets).
CategoryTweetsUncapped(fs, usernames, cutoff_time, acc) ==
    IF usernames = <<>> \/ acc.raised THEN acc
    ELSE LET cache_data == load_user_cache(fs, Head(usernames)).value
             user_tweets == IF cache_data.tweets.t = "missing" THEN TweetList(<<>>)
                            ELSE cache_data.tweets
         IN  IF ~cache_data.obj \/ user_tweets.t # "list"
             THEN [acc EXCEPT !.raised = TRUE]
             ELSE LET fresh_tweets == FreshTweets(user_tweets.items, cutoff_time)
                  IN  CategoryTweetsUncapped(fs, Tail(usernames), cutoff_time,
                          IF fresh_tweets # <<>>
                          THEN [acc EXCEPT !.tweets = @ \o fresh_tweets,
                                           !.cache_hits = @ + 1]
                          ELSE acc)

RECURSIVE CategoryTweets(_, _, _, _)
\* The loop over the usernames of one category.
CategoryTweets(fs, usernames, cutoff_time, acc) ==
    IF usernames = <<>> \/ acc.raised THEN acc
    ELSE LET cache_data == load_user_cache(fs, Head(usernames)).value
             user_tweets == IF cache_data.tweets.t = "missing" THEN TweetList(<<>>)
                            ELSE cache_data.tweets
         IN  IF ~cache_data.obj \/ user_tweets.t # "list"
             THEN [acc EXCEPT !.raised = TRUE]
             ELSE LET fresh_tweets == FreshTweets(user_tweets.items, cutoff_time)
                  IN  CategoryTweets(fs, Tail(usernames), cutoff_time,
                          IF fresh_tweets # <<>>
                          THEN [acc EXCEPT
                                   !.tweets = @ \o Truncate(fresh_tweets, UserCap),
                                   !.cache_hits = @ + 1]
                          ELSE acc)

RECURSIVE CachedByCategory(_, _, _, _)
\* The loop over accounts_by_category.items().
CachedByCategory(fs, accounts, cutoff_time, acc) ==
    IF accounts = <<>> \/ acc.raised THEN acc
    ELSE LET cat == CategoryTweets(fs, Head(accounts).usernames, cutoff_time,
                        [raised |-> FALSE, tweets |-> <<>>,
                         cache_hits |-> acc.stats.cache_hits])
         IN  IF cat.raised THEN [acc EXCEPT !.raised = TRUE]
             ELSE CachedByCategory(fs, Tail(accounts), cutoff_time,
                     IF cat.tweets # <<>>
                     THEN [raised |-> FALSE,
                           result |-> Append(acc.result,
                                        [category |-> Head(accounts).category,
                                         tweets |-> cat.tweets]),
                           stats |-> [total_cached |-> acc.stats.total_cached + Len(cat.tweets),
                                      total_categories |-> acc.stats.total_categories + 1,
                                      cache_hits |-> cat.cache_hits]]
                     ELSE [acc EXCEPT !.stats.cache_hits = cat.cache_hits])

get_cached_tweets_by_category(fs, accounts_by_category, max_age_hours, t) ==
    CachedByCategory(fs, accounts_by_category, t - max_age_hours,
        [raised |-> FALSE, result |-> <<>>,
         stats |-> [total_cached |-> 0, total_categories |-> 0, cache_hits |-> 0]])

RECURSIVE SummaryUsers(_, _, _)
\* The loop over cache_files of get_cache_summary.
SummaryUsers(fs, cache_files, summary) ==
    IF cache_files = <<>> \/ summary.raised THEN summary
    ELSE LET username == Head(cache_files)
             cache_data == load_user_cache(fs, username).value
             tweets == IF cache_data.tweets.t = "missing" THEN TweetList(<<>>)
                       ELSE cache_data.tweets
         IN  IF ~cache_data.obj \/ tweets.t # "list"
             THEN [summary EXCEPT !.raised = TRUE]
             ELSE LET user_info ==
                          [username |-> username,
                           tweet_count |-> Len(tweets.items),
                           last_updated |-> Get(cache_data.last_updated,
                                                JStr(<<"N", "e", "v", "e", "r">>))]
                  IN  SummaryUsers(fs, Tail(cache_files),
                          [summary EXCEPT
                              !.users = Append(@, user_info),
                              !.total_tweets = @ + user_info.tweet_count])

get_cache_summary(fs, cache_files) ==
    SummaryUsers(fs, cache_files,
        [raised |-> FALSE, total_users |-> Len(cache_files), total_tweets |-> 0,
         users |-> <<>>])

RECURSIVE CleanupFilesAlwaysSave(_, _, _, _, _)
\* A loop that saves every listed file, whether or not a tweet was removed.
CleanupFilesAlwaysSave(cache_files, cutoff_time, t, io, acc) ==
    IF cache_files = <<>> \/ acc.raised THEN acc
    ELSE LET username == Head(cache_files)
             cache_data == load_user_cache(acc.files, username).value
             tweets == IF cache_data.tweets.t = "missing" THEN TweetList(<<>>)
                       ELSE cache_data.tweets
         IN  IF ~cache_data.obj \/ tweets.t # "list"
             THEN [acc EXCEPT !.raised = TRUE]
             ELSE LET fresh_tweets == FreshTweets(tweets.items, cutoff_time)
                      removed == Len(tweets.items) - Len(fresh_tweets)
                  IN  CleanupFilesAlwaysSave(Tail(cache_files), cutoff_time, t, io,
                          [raised |-> FALSE,
                           files |-> save_user_cache(acc.files, username,
                                         fresh_tweets, t, io[username]).files,
                           users_cleaned |-> acc.users_cleaned
                                             + (IF removed > 0 THEN 1 ELSE 0),
                           tweets_removed |-> acc.tweets_removed + removed])

RECURSIVE CleanupFiles(_, _, _, _, _)
\* The loop over cache_files.  A call that raises leaves the files saved
\* before it as saved.
CleanupFiles(cache_files, cutoff_time, t, io, acc) ==
    IF cache_files = <<>> \/ acc.raised THEN acc
    ELSE LET username == Head(cache_files)
             cache_data == load_user_cache(acc.files, username).value
             tweets == IF cache_data.tweets.t = "missing" THEN TweetList(<<>>)
                       ELSE cache_data.tweets
         IN  IF ~cache_data.obj \/ tweets.t # "list"
             THEN [acc EXCEPT !.raised = TRUE]
             ELSE LET fresh_tweets == FreshTweets(tweets.items, cutoff_time)
                      removed == Len(tweets.items) - Len(fresh_tweets)
                  IN  CleanupFiles(Tail(cache_files), cutoff_time, t, io,
                          IF Len(fresh_tweets) # Len(tweets.items)
                          THEN [raised |-> FALSE,
                                files |-> save_user_cache(acc.files, username,
                                              fresh_tweets, t, io[username]).files,
                                users_cleaned |-> acc.users_cleaned + 1,
                                tweets_removed |-> acc.tweets_removed + removed]
                          ELSE acc)

\* cache_files lists the files of the cache directory in the order
\* os.listdir gives them; io tells what the write of each save does.
cleanup_old_cache(fs, max_age_days, t, cache_files, io) ==
    CleanupFiles(cache_files, t - max_age_days * HoursPerDay, t, io,
        [raised |-> FALSE, files |-> fs, users_cleaned |-> 0, tweets_removed |-> 0])

(***************************************************************************)
(* collect_comprehensive_tweets (src/comprehensive_tweet_collector.py).    *)
(* api is what the remote service answers for each user; all_accounts and  *)
(* the dicts keyed by category are lists of entries in insertion order.    *)
(***************************************************************************)
\* The most tweets asked for in the refresh loop.  The source asks for 20.
FetchMax == 2

\* The most tweets asked for in the loop over all accounts.  The source asks
\* for its default of 10.
RefetchMax == 1

\* get_user_tweets: one request; the tweets of the answer, at most
\* max_tweets of them (none when the request fails).
get_user_tweets(api, username, max_tweets) == Truncate(api[username], max_tweets)

\* category in comprehensive_data
HasCategory(data, category) ==
    \E i \in 1..Len(data) : data[i].category = category

\* comprehensive_data[category] = tweets
SetCategory(data, category, tweets) ==
    IF HasCategory(data, category)
    THEN [i \in 1..Len(data) |->
             IF data[i].category = category
             THEN [category |-> category, tweets |-> tweets]
             ELSE data[i]]
    ELSE Append(data, [category |-> category, tweets |-> tweets])

\* comprehensive_data[category], for a category that is there.
CategoryOf(data, category) ==
    data[CHOOSE i \in 1..Len(data) : data[i].category = category].tweets

RECURSIVE AllPairs(_)
\* [(cat, user) for cat, users in all_accounts.items() for user in users]
AllPairs(all_accounts) ==
    IF all_accounts = <<>> THEN <<>>
    ELSE [i \in 1..Len(Head(all_accounts).usernames) |->
             [category |-> Head(all_accounts).category,
              username |-> Head(all_accounts).usernames[i]]]
         \o AllPairs(Tail(all_accounts))

RECURSIVE StalePairs(_, _, _, _, _)
\* The loop that asks needs_fresh_data for every listed user.
StalePairs(fs, pairs, max_age_hours, t, acc) ==
    IF pairs = <<>> \/ acc.raised THEN acc
    ELSE LET stale == needs_fresh_data(fs, Head(pairs).username, max_age_hours, t)
         IN  StalePairs(fs, Tail(pairs), max_age_hours, t,
                 IF stale.raised THEN [acc EXCEPT !.raised = TRUE]
                 ELSE IF stale.ret THEN [acc EXCEPT !.pairs = Append(@, Head(pairs))]
                 ELSE acc)

RECURSIVE RefreshUsers(_, _, _, _, _)
\* The loop over users_to_refresh: fetch, merge into the cache, replace the
\* user's tweets in the category.
RefreshUsers(users_to_refresh, api, t, io, st) ==
    IF users_to_refresh = <<>> \/ st.raised THEN st
    ELSE LET category == Head(users_to_refresh).category
             username == Head(users_to_refresh).username
             new_tweets == get_user_tweets(api, username, FetchMax)
             fetched == [st EXCEPT !.new_api_calls = @ + 1,
                                   !.fetched = Append(@, username)]
         IN  RefreshUsers(Tail(users_to_refresh), api, t, io,
                 IF new_tweets = <<>> THEN fetched
                 ELSE LET m == merge_new_tweets(st.files, username, new_tweets, t, io)
                          NotOfUser(tweet) == tweet.username # JStr(username)
                          others == IF HasCategory(st.data, category)
                                    THEN SelectSeq(CategoryOf(st.data, category), NotOfUser)
                                    ELSE <<>>
                      IN  IF m.raised THEN [fetched EXCEPT !.raised = TRUE]
                          ELSE [fetched EXCEPT
                                   !.files = m.files,
                                   !.data = SetCategory(st.data, category,
                                                others \o Truncate(m.tweets, UserCap)),
                                   !.total_tweets = @ + m.new_count])

RECURSIVE RefetchUsers(_, _, _)
\* The inner loop of the loop over all accounts: fetch every user.
RefetchUsers(usernames, api, acc) ==
    IF usernames = <<>> THEN acc
    ELSE LET tweets == get_user_tweets(api, Head(usernames), RefetchMax)
         IN  RefetchUsers(Tail(usernames), api,
                 [tweets |-> acc.tweets \o tweets,
                  fetched |-> Append(acc.fetched, Head(usernames))])

RECURSIVE RefetchAll(_, _, _)
\* The loop over all_accounts.items() that follows the refresh.
RefetchAll(all_accounts, api, st) ==
    IF all_accounts = <<>> THEN st
    ELSE IF Head(all_accounts).usernames = <<>> THEN RefetchAll(Tail(all_accounts), api, st)
    ELSE LET got == RefetchUsers(Head(all_accounts).usernames, api,
                        [tweets |-> <<>>, fetched |-> st.fetched])
         IN  RefetchAll(Tail(all_accounts), api,
                 [st EXCEPT !.fetched = got.fetched,
                            !.total_tweets = @ + Len(got.tweets),
                            !.data = SetCategory(st.data, Head(all_accounts).category,
                                                 got.tweets)])

\* fetched lists the users get_user_tweets was called for, call after call.
collect_comprehensive_tweets(fs, all_accounts, api_key, force_refresh, max_age_hours, t, api, io) ==
    LET start == [raised |-> FALSE, none |-> FALSE, files |-> fs, data |-> <<>>,
                  cached |-> <<>>, users_to_refresh |-> <<>>, total_tweets |-> 0,
                  new_api_calls |-> 0, fetched |-> <<>>]
        cache == get_cached_tweets_by_category(fs, all_accounts, max_age_hours, t)
        scanned == StalePairs(fs, AllPairs(all_accounts), max_age_hours, t,
                              [raised |-> FALSE, pairs |-> <<>>])
        users_to_refresh == IF force_refresh THEN AllPairs(all_accounts)
                            ELSE scanned.pairs
    IN  IF ~api_key THEN [start EXCEPT !.none = TRUE]
        ELSE IF cache.raised THEN [start EXCEPT !.raised = TRUE]
        ELSE IF ~force_refresh /\ scanned.raised THEN [start EXCEPT !.raised = TRUE]
        ELSE LET refreshed ==
                     RefreshUsers(users_to_refresh, api, t, io,
                         [start EXCEPT !.data = cache.result,
                                       !.cached = cache.result,
                                       !.users_to_refresh = users_to_refresh,
                                       !.total_tweets = cache.stats.total_cached])
             IN  IF refreshed.raised THEN refreshed
                 ELSE RefetchAll(all_accounts, api, refreshed)

(***************************************************************************)
(* The inputs.                                                             *)
(***************************************************************************)
UserA == <<"a">>

UserB == <<"b">>

Users == {UserA, UserB}

TweetOld == Tweet(JStr(UserA), JStr(<<"g", "m">>), JStr(<<"1", "0">>), 1)

TweetMid == Tweet(JStr(UserA), JStr(<<"g", "m">>), JStr(<<"3", "0">>), 1)

\* Created in the same hour as TweetMid.
TweetTie == Tweet(JStr(UserB), JStr(<<"h", "i">>), JStr(<<"3", "0">>), 2)

Tweets == {TweetOld, TweetMid, TweetTie}

SeqsUpTo(S, n) == UNION {[1..m -> S] : m \in 0..n}

Batches == SeqsUpTo(Tweets, MaxBatch)

\* Batches of at most one tweet.
ShortBatches == SeqsUpTo(Tweets, 1)

AgeHours == {0, 1, 2}

AgeDays == {0, 1}

\* The orders in which os.listdir can list the files that exist.
Listings(fs) ==
    LET present == {u \in Users : fs[u].kind # "absent"}
    IN  {s \in SeqsUpTo(present, Cardinality(present)) :
            Len(s) = Cardinality(present) /\ \A i, j \in 1..Len(s) : i # j => s[i] # s[j]}

Listed(cache_files) == {cache_files[i] : i \in 1..Len(cache_files)}

AccountLists ==
    {<<[category |-> "c1", usernames |-> <<UserA, UserB>>]>>,
     <<[category |-> "c1", usernames |-> <<UserA>>],
       [category |-> "c2", usernames |-> <<UserB, UserA>>]>>}

(***************************************************************************)
(* The state machine.  files is the cache directory, now the clock, last   *)
(* the latest call with what it returned, pending what each process that   *)
(* is inside merge_new_tweets holds between its load and its save.         *)
(***************************************************************************)
\* The processes that share the cache directory.
Procs == {1, 2}

\* A process that is not inside merge_new_tweets.
Idle ==
    [pc |-> "idle", username |-> <<>>, merged_tweets |-> <<>>, new_count |-> 0,
     io |-> "none"]

Init ==
    /\ files = [u \in Users |-> AbsentFile]
    /\ now = StartHour
    /\ last = [op |-> "init"]
    /\ pending = [p \in Procs |-> Idle]

Merge(username, new_tweets, io) ==
    \E r \in {merge_new_tweets(files, username, new_tweets, now, io)} :
        /\ files' = r.files
        /\ last' = [op |-> "merge", username |-> username, new_tweets |-> new_tweets,
                    io |-> io, raised |-> r.raised, tweets |-> r.tweets,
                    new_count |-> r.new_count]
        /\ UNCHANGED <<now, pending>>

Cleanup(max_age_days, cache_files, io) ==
    \E r \in {cleanup_old_cache(files, max_age_days, now, cache_files, io)} :
        /\ files' = r.files
        /\ last' = [op |-> "cleanup", max_age_days |-> max_age_days, at |-> now,
                    raised |-> r.raised,
                    users_cleaned |-> r.users_cleaned,
                    tweets_removed |-> r.tweets_removed]
        /\ UNCHANGED <<now, pending>>

SaveUserCache(username, tweets_data, io) ==
    \E r \in {save_user_cache(files, username, tweets_data, now, io)} :
        /\ files' = r.files
        /\ last' = [op |-> "save_user_cache", username |-> username,
                    tweets_data |-> tweets_data, io |-> io, raised |-> r.raised,
                    ret |-> r.ret]
        /\ UNCHANGED <<now, pending>>

NeedsFreshData(username, max_age_hours) ==
    \E r \in {needs_fresh_data(files, username, max_age_hours, now)} :
        /\ last' = [op |-> "needs_fresh_data", username |-> username,
                    max_age_hours |-> max_age_hours, at |-> now,
                    raised |-> r.raised, ret |-> r.ret]
        /\ UNCHANGED <<files, now, pending>>

\* A load that writes the default over a file it could not decode.
LoadUserCacheHealing(username) ==
    \E r \in {load_user_cache(files, username)} :
        /\ last' = [op |-> "load_user_cache", username |-> username,
                    raised |-> r.raised, value |-> r.value]
        /\ files' = IF files[username].kind = "corrupt"
                    THEN save_user_cache(files, username, <<>>, now, "ok").files
                    ELSE files
        /\ UNCHANGED <<now, pending>>

LoadUserCache(username) ==
    \E r \in {load_user_cache(files, username)} :
        /\ last' = [op |-> "load_user_cache", username |-> username,
                    raised |-> r.raised, value |-> r.value]
        /\ UNCHANGED <<files, now, pending>>

GetCached(accounts_by_category, max_age_hours) ==
    \E r \in {get_cached_tweets_by_category(files, accounts_by_category, max_age_hours, now)} :
        /\ last' = [op |-> "get_cached_tweets_by_category",
                    accounts_by_category |-> accounts_by_category,
                    max_age_hours |-> max_age_hours, at |-> now,
                    raised |-> r.raised, result |-> r.result, stats |-> r.stats]
        /\ UNCHANGED <<files, now, pending>>

GetCacheSummary(cache_files) ==
    \E r \in {get_cache_summary(files, cache_files)} :
        /\ last' = [op |-> "get_cache_summary", raised |-> r.raised,
                    total_users |-> r.total_users, total_tweets |-> r.total_tweets,
                    users |-> r.users]
        /\ UNCHANGED <<files, now, pending>>

\* Process p runs merge_new_tweets up to its save: it has read the file and
\* holds the list it is about to write.
MergeLoad(p, username, new_tweets) ==
    /\ pending[p].pc \in {"idle", "returned"}
    /\ \E m \in {merged_tweets(files, username, new_tweets)} :
          /\ pending' = [pending EXCEPT ![p] =
                            IF m.raised THEN Idle
                            ELSE [pc |-> "loaded", username |-> username,
                                  merged_tweets |-> m.tweets,
                                  new_count |-> m.new_count, io |-> "none"]]
          /\ last' = [op |-> "merge_load", proc |-> p, username |-> username,
                      new_tweets |-> new_tweets, raised |-> m.raised]
    /\ UNCHANGED <<files, now>>

\* A save that merges the list it holds into what the file holds by then.
MergeSaveReloading(p, io) ==
    /\ pending[p].pc = "loaded"
    /\ \E r \in {merge_new_tweets(files, pending[p].username,
                                  pending[p].merged_tweets, now, io)} :
          /\ files' = r.files
          /\ pending' = [pending EXCEPT ![p].pc = "returned", ![p].io = io]
          /\ last' = [op |-> "merge_save", proc |-> p,
                      username |-> pending[p].username, io |-> io,
                      raised |-> r.raised]
    /\ UNCHANGED now

\* Process p runs the save of merge_new_tweets and returns.
MergeSave(p, io) ==
    /\ pending[p].pc = "loaded"
    /\ \E r \in {save_user_cache(files, pending[p].username,
                                 pending[p].merged_tweets, now, io)} :
          /\ files' = r.files
          /\ pending' = [pending EXCEPT ![p].pc = "returned", ![p].io = io]
          /\ last' = [op |-> "merge_save", proc |-> p,
                      username |-> pending[p].username, io |-> io,
                      raised |-> r.raised]
    /\ UNCHANGED now

Collect(all_accounts, api_key, force_refresh, max_age_hours, api, io) ==
    \E r \in {collect_comprehensive_tweets(files, all_accounts, api_key, force_refresh,
                                           max_age_hours, now, api, io)} :
        /\ files' = r.files
        /\ last' = [op |-> "collect", force_refresh |-> force_refresh,
                    max_age_hours |-> max_age_hours, at |-> now,
                    raised |-> r.raised, none |-> r.none,
                    users_to_refresh |-> r.users_to_refresh,
                    fetched |-> r.fetched, new_api_calls |-> r.new_api_calls,
                    total_tweets |-> r.total_tweets,
                    cached |-> r.cached, tweets_by_category |-> r.data]
        /\ UNCHANGED <<now, pending>>

\* An hour passes.
TickTo(limit) ==
    /\ now < limit
    /\ now' = now + 1
    /\ UNCHANGED <<files, last, pending>>

Tick == TickTo(MaxNow)

Next ==
    \/ \E b \in Batches, io \in IoOutcomes : Merge(UserA, b, io)
    \/ \E d \in AgeDays, l \in Listings(files) :
          \E io \in [Listed(l) -> IoOutcomes] : Cleanup(d, l, io)
    \/ \E u \in Users, h \in AgeHours : NeedsFreshData(u, h)
    \/ \E u \in Users : LoadUserCache(u)
    \/ \E a \in AccountLists, h \in AgeHours : GetCached(a, h)
    \/ Tick

Spec == Init /\ [][Next]_vars

(***************************************************************************)
(* The cache directory as other writers can leave it: the files are JSON   *)
(* text that any program, or a hand, may have written.                     *)
(***************************************************************************)
\* A tweet whose created_at is null.
TweetNull == Tweet(JStr(UserA), JStr(<<"g", "m">>), JNull, 0)

\* A tweet whose created_at carries the UTC mark.
TweetZulu == Tweet(JStr(UserA), JStr(<<"g", "m">>), JStr(<<"1", "0", "Z">>), 0)

\* A tweet whose created_at is no ISO text.
TweetWed == Tweet(JStr(UserA), JStr(<<"g", "m">>), JStr(<<"W", "e", "0", "1">>), 0)

ForeignFiles ==
    {AbsentFile, CorruptFile, NonObjectFile,
     ObjectFile(NullTweets, JMissing, JMissing),
     ObjectFile(MissingTweets, JNum(5), JMissing),
     ObjectFile(TweetList(<<TweetNull>>), JNull, JNum(1)),
     ObjectFile(TweetList(<<TweetNull, TweetOld>>), JStr(<<>>), JNum(2)),
     ObjectFile(TweetList(<<TweetOld, TweetZulu>>), JStr(<<"W", "e", "0", "1">>), JNum(2)),
     ObjectFile(TweetList(<<TweetWed, TweetMid>>), JStr(IsoFormat(StartHour) \o UtcSuffix), JNum(2)),
     ObjectFile(TweetList(<<>>), JStr(<<"4", "0">>), JNum(0))}

InitAnyFiles ==
    /\ files \in [Users -> ForeignFiles]
    /\ files[UserB] \in {AbsentFile, NonObjectFile}
    /\ now = StartHour
    /\ last = [op |-> "init"]
    /\ pending = [p \in Procs |-> Idle]

NextAnyFiles ==
    \/ \E b \in ShortBatches, io \in IoOutcomes : Merge(UserA, b, io)
    \/ \E b \in ShortBatches, io \in IoOutcomes : SaveUserCache(UserA, b, io)
    \/ \E d \in AgeDays, l \in Listings(files) :
          \E io \in [Listed(l) -> IoOutcomes] : Cleanup(d, l, io)
    \/ \E u \in Users, h \in AgeHours : NeedsFreshData(u, h)
    \/ \E u \in Users : LoadUserCache(u)
    \/ \E a \in AccountLists, h \in AgeHours : GetCached(a, h)
    \/ \E l \in Listings(files) : GetCacheSummary(l)
    \/ Tick

SpecAnyFiles == InitAnyFiles /\ [][NextAnyFiles]_vars

(***************************************************************************)
(* Merges alone, over tweets of three ages, so that a full cache meets a   *)
(* tweet newer than all it holds.                                          *)
(***************************************************************************)
\* Newer than TweetMid and TweetTie.
TweetNew == Tweet(JStr(UserA), JStr(<<"g", "m">>), JStr(<<"4", "0">>), 3)

EvictTweets == {TweetOld, TweetMid, TweetTie, TweetNew}

EvictBatches == SeqsUpTo(EvictTweets, CacheCap)

NextEvict == \E b \in EvictBatches, io \in IoOutcomes : Merge(UserA, b, io)

SpecEvict == Init /\ [][NextEvict]_vars

(***************************************************************************)
(* Merges alone, over tweets whose (username, text, created_at) differ but *)
(* whose hashed content is the same text.                                  *)
(***************************************************************************)
\* "a:b" + ":" + "hi" and "a" + ":" + "b:hi" are both "a:b:hi".
TweetSplitLeft ==
    Tweet(JStr(<<"a", ":", "b">>), JStr(<<"h", "i">>), JStr(<<"3", "0">>), 0)

TweetSplitRight ==
    Tweet(JStr(<<"a">>), JStr(<<"b", ":", "h", "i">>), JStr(<<"3", "0">>), 0)

\* A tweet with no "text" key, and one whose text is the empty string:
\* tweet.get('text', '') is '' for both.
TweetNoText == Tweet(JStr(UserA), JMissing, JStr(<<"3", "0">>), 0)

TweetEmptyText == Tweet(JStr(UserA), JStr(<<>>), JStr(<<"3", "0">>), 0)

IdentityTweets ==
    {TweetMid, TweetSplitLeft, TweetSplitRight, TweetNoText, TweetEmptyText}

IdentityBatches == SeqsUpTo(IdentityTweets, CacheCap)

NextIdentity == \E b \in IdentityBatches, io \in IoOutcomes : Merge(UserA, b, io)

SpecIdentity == Init /\ [][NextIdentity]_vars

(***************************************************************************)
(* The reads and the cleanup over a directory in which both users have     *)
(* stored tweets, as merges with successful writes leave it: each list     *)
(* newest first by the created_at strings and within the cap.              *)
(***************************************************************************)
StoredLists ==
    {<<>>, <<TweetOld>>, <<TweetMid, TweetOld>>, <<TweetTie, TweetMid>>,
     <<TweetNew, TweetMid>>, <<TweetZulu, TweetOld>>, <<TweetWed, TweetMid>>}

StoredFiles ==
    {AbsentFile} \cup
    {ObjectFile(TweetList(l), JStr(IsoFormat(StartHour)), JNum(Len(l))) : l \in StoredLists}

\* max_age_hours that put the cutoff between the ages of the tweets.
WindowHours == {10, 20, 40}

\* max_age_days that put the cutoff after, between and before the tweets.
KeepDays == {0, 1, 2}

\* Every write of the cleanup succeeds.
WritesOk(cache_files) == [u \in Listed(cache_files) |-> "ok"]

InitStored ==
    /\ files \in [Users -> StoredFiles]
    /\ now = StartHour
    /\ last = [op |-> "init"]
    /\ pending = [p \in Procs |-> Idle]

NextStored ==
    \/ \E a \in AccountLists, h \in WindowHours : GetCached(a, h)
    \/ \E d \in KeepDays, l \in Listings(files) : Cleanup(d, l, WritesOk(l))
    \/ Tick

SpecStored == InitStored /\ [][NextStored]_vars

(***************************************************************************)
(* Two processes in merge_new_tweets for one user, each step the load with *)
(* the computation that follows it, or the save.  Every write succeeds, so *)
(* that a tweet missing from the store was lost to the other process and   *)
(* not to a failed write.                                                  *)
(***************************************************************************)
NextConcurrent ==
    \/ \E p \in Procs, b \in ShortBatches : MergeLoad(p, UserA, b)
    \/ \E p \in Procs : MergeSave(p, "ok")

SpecConcurrent == Init /\ [][NextConcurrent]_vars

(***************************************************************************)
(* Merges and freshness tests of one user while the clock runs on, past    *)
(* the longest max_age_hours asked about.                                  *)
(***************************************************************************)
\* The last hour of the clock here.
RefreshEnd == 51

NextRefresh ==
    \/ \E b \in ShortBatches, io \in IoOutcomes : Merge(UserA, b, io)
    \/ \E h \in AgeHours : NeedsFreshData(UserA, h)
    \/ TickTo(RefreshEnd)

SpecRefresh == Init /\ [][NextRefresh]_vars

(***************************************************************************)
(* Merges alone, over tweets of which two have the same (username, text,   *)
(* created_at) and different engagement counts.                            *)
(***************************************************************************)
\* TweetMid seen again later, with more likes.
TweetMidLiked == Tweet(JStr(UserA), JStr(<<"g", "m">>), JStr(<<"3", "0">>), 9)

EngagementTweets == {TweetOld, TweetMid, TweetMidLiked, TweetNew}

EngagementBatches == SeqsUpTo(EngagementTweets, CacheCap)

NextEngagement ==
    \E b \in EngagementBatches, io \in IoOutcomes : Merge(UserA, b, io)

SpecEngagement == Init /\ [][NextEngagement]_vars

(***************************************************************************)
(* Merges alone, over three tweets created in the same hour and one newer. *)
(***************************************************************************)
\* Created in the same hour as TweetMid and TweetTie.
TweetThird == Tweet(JStr(UserB), JStr(<<"g", "m">>), JStr(<<"3", "0">>), 0)

TieTweets == {TweetMid, TweetTie, TweetThird, TweetNew}

TieBatches == SeqsUpTo(TieTweets, CacheCap)

NextTies == \E b \in TieBatches, io \in IoOutcomes : Merge(UserA, b, io)

SpecTies == Init /\ [][NextTies]_vars

(***************************************************************************)
(* Runs of the collector over an empty cache directory.                    *)
(***************************************************************************)
\* What the remote service can answer: for each user nothing (no tweets, or
\* a failed request), or one tweet of that user.
ApiAnswers ==
    {api \in [Users -> {<<>>, <<TweetMid>>, <<TweetTie>>}] :
        \A u \in Users : \A i \in 1..Len(api[u]) : api[u][i].username = JStr(u)}

\* The service answers nothing.
NoAnswers == [u \in Users |-> <<>>]

NextCollect ==
    \/ \E a \in AccountLists, f \in BOOLEAN, h \in AgeHours,
          api \in ApiAnswers, io \in IoOutcomes : Collect(a, TRUE, f, h, api, io)
    \/ \E a \in AccountLists : Collect(a, FALSE, FALSE, 0, NoAnswers, "ok")
    \/ Tick

SpecCollect == Init /\ [][NextCollect]_vars

(***************************************************************************)
(* Merges and saves for either user over a directory in which both users   *)
(* have stored tweets.                                                     *)
(***************************************************************************)
NextKeys ==
    \/ \E u \in Users, b \in ShortBatches, io \in IoOutcomes : Merge(u, b, io)
    \/ \E u \in Users, b \in ShortBatches, io \in IoOutcomes : SaveUserCache(u, b, io)

SpecKeys == InitStored /\ [][NextKeys]_vars

(***************************************************************************)
(* The properties.                                                         *)
(***************************************************************************)
\* The hours that two digits write.
HourRange == 0 .. 99

\* The (username, text, created_at) of a tweet.
Identity(tweet) == <<tweet.username, tweet.text, tweet.created_at>>

StoredTweets(u) == files[u].tweets.items

HoldsList(u) == files[u].kind = "object" /\ files[u].tweets.t = "list"

NewestFirst(tweets) ==
    \A i, j \in 1..Len(tweets) :
        i < j => ~StrLess(SortKey(tweets[i]).s, SortKey(tweets[j]).s)

\* C1: merging a batch and at once merging the same batch again returns
\* new_count = 0 the second time and leaves the stored tweets as the first
\* merge stored them, whatever was stored before and however long the batch
\* (stated for merges whose writes succeed).
C1_IdempotentMerge ==
    [][(/\ last.op = "merge" /\ ~last.raised /\ last.io = "ok"
        /\ last'.op = "merge" /\ last'.io = "ok"
        /\ last'.username = last.username
        /\ last'.new_tweets = last.new_tweets
        /\ now' = now)
       => (/\ ~last'.raised
           /\ last'.new_count = 0
           /\ files'[last.username].tweets = files[last.username].tweets)]_vars

\* C2: no stored collection and no list returned by merge_new_tweets holds
\* more tweets than the cap, after any merges and cleanups.
C2_CapacityBound ==
    /\ \A u \in Users : HoldsList(u) => Len(StoredTweets(u)) <= CacheCap
    /\ (last.op = "merge" /\ ~last.raised) => Len(last.tweets) <= CacheCap

\* A merge that appended more new tweets than the cap left the cap stored.
C2_Witness ==
    /\ last.op = "merge" /\ ~last.raised /\ last.io = "ok"
    /\ last.new_count > CacheCap
    /\ Len(StoredTweets(last.username)) = CacheCap

\* C3: from an empty cache directory, no stored collection holds two tweets
\* with the same (username, text, created_at).
C3_NoDuplicates ==
    \A u \in Users :
        HoldsList(u) =>
            \A i, j \in 1..Len(StoredTweets(u)) :
                i # j => Identity(StoredTweets(u)[i]) # Identity(StoredTweets(u)[j])

\* A batch that held one new tuple twice was merged and stored.
C3_Witness ==
    /\ last.op = "merge" /\ ~last.raised /\ last.io = "ok" /\ last.new_count >= 1
    /\ \E i, j \in 1..Len(last.new_tweets) :
          /\ i < j
          /\ Identity(last.new_tweets[i]) = Identity(last.new_tweets[j])
          /\ \E k \in 1..Len(StoredTweets(last.username)) :
                StoredTweets(last.username)[k] = last.new_tweets[i]
          /\ Len(StoredTweets(last.username)) = last.new_count

\* C4: every stored collection, and every list merge_new_tweets returns, is
\* in non-increasing order of the created_at strings; cleanup keeps it so.
C4_NewestFirst ==
    /\ \A u \in Users : HoldsList(u) => NewestFirst(StoredTweets(u))
    /\ (last.op = "merge" /\ ~last.raised) => NewestFirst(last.tweets)

\* A batch listing an older tweet before a newer one was merged, and both are
\* stored, the newer first.
C4_Witness ==
    /\ last.op = "merge" /\ ~last.raised /\ last.io = "ok"
    /\ \E i, j \in 1..Len(last.new_tweets) :
          /\ i < j
          /\ StrLess(SortKey(last.new_tweets[i]).s, SortKey(last.new_tweets[j]).s)
          /\ StoredTweets(last.username) = <<last.new_tweets[j], last.new_tweets[i]>>

\* The file of the user the latest call was about.
LastFile == files[last.username]

\* C5: for a stored last_updated that is the ISO text of an hour h,
\* needs_fresh_data returns true exactly when more than max_age_hours have
\* passed since h.
C5_FreshnessThreshold ==
    last.op = "needs_fresh_data" =>
        \A h \in HourRange :
            (LastFile.kind = "object" /\ LastFile.last_updated = JStr(IsoFormat(h)))
                => /\ ~last.raised
                   /\ last.ret <=> (last.at - h > last.max_age_hours)

\* The data is exactly max_age_hours old, and not stale.
C5_Witness ==
    /\ last.op = "needs_fresh_data" /\ last.max_age_hours >= 1
    /\ LastFile.kind = "object"
    /\ LastFile.last_updated = JStr(IsoFormat(last.at - last.max_age_hours))
    /\ ~last.raised /\ ~last.ret

\* C6: with no file, or with a record whose last_updated is absent or null,
\* needs_fresh_data returns true.
C6_NeverCachedIsStale ==
    (/\ last.op = "needs_fresh_data"
     /\ \/ LastFile.kind = "absent"
        \/ LastFile.kind = "object" /\ LastFile.last_updated.t \in {"missing", "null"})
    => (~last.raised /\ last.ret)

\* A record whose last_updated is null was asked about.
C6_Witness ==
    /\ last.op = "needs_fresh_data"
    /\ LastFile.kind = "object" /\ LastFile.last_updated = JNull
    /\ ~last.raised /\ last.ret

\* A last_updated that is there and is not the ISO text of a naive time.
Unparseable(v) ==
    /\ v.t \in {"str", "num"}
    /\ \A h \in HourRange : v # JStr(IsoFormat(h))

\* C7: with a last_updated that cannot be parsed or compared as a time (a
\* wrong format, a number, a time with a UTC offset), needs_fresh_data
\* returns true and does not raise.
C7_FailOpen ==
    (/\ last.op = "needs_fresh_data"
     /\ LastFile.kind = "object"
     /\ Unparseable(LastFile.last_updated))
    => (~last.raised /\ last.ret)

\* A last_updated of this very hour, written with a UTC offset, counts as stale.
C7_Witness ==
    /\ last.op = "needs_fresh_data" /\ last.max_age_hours >= 1
    /\ LastFile.kind = "object"
    /\ LastFile.last_updated = JStr(IsoFormat(last.at) \o UtcSuffix)
    /\ ~last.raised /\ last.ret

\* C8: load_user_cache returns the empty default when the file is absent or
\* cannot be decoded; it does not raise and leaves every file as it is.
C8_LoadMiss ==
    [][last'.op = "load_user_cache"
       => /\ files' = files
          /\ ~last'.raised
          /\ files[last'.username].kind \in {"absent", "corrupt"}
                => last'.value = EmptyCache]_vars

\* An undecodable file was loaded as the empty default.
C8_Witness ==
    /\ last.op = "load_user_cache"
    /\ LastFile.kind = "corrupt"
    /\ ~last.raised /\ last.value = EmptyCache

\* C9: whatever a file holds, merge_new_tweets, needs_fresh_data,
\* get_cached_tweets_by_category and cleanup_old_cache return and do not
\* raise.
C9_NoFailureEscapes ==
    last.op \in {"merge", "needs_fresh_data", "get_cached_tweets_by_category", "cleanup"}
        => ~last.raised

\* C10: a save_user_cache whose write fails does not raise and returns a
\* falsy value that differs from what a successful save returns.
C10_WriteFailureSignalled ==
    (last.op = "save_user_cache" /\ last.io # "ok")
    => /\ ~last.raised
       /\ ~Truthy(last.ret)
       /\ last.ret # save_user_cache(files, last.username, last.tweets_data, now, "ok").ret

\* C11: from an empty cache directory, every record in the directory has
\* total_tweets equal to the length of its tweets and a last_updated that is
\* the ISO text of an hour the clock has shown; and every step that changes a
\* record stamps it with the hour of that step.
C11_DerivedCount ==
    /\ [](\A u \in Users :
             files[u].kind = "object" =>
                 /\ files[u].tweets.t = "list"
                 /\ files[u].total_tweets = JNum(Len(files[u].tweets.items))
                 /\ \E h \in StartHour..now : files[u].last_updated = JStr(IsoFormat(h)))
    /\ [][\A u \in Users :
             (files'[u] # files[u] /\ files'[u].kind = "object") =>
                 /\ files'[u].last_updated = JStr(IsoFormat(now))
                 /\ files'[u].total_tweets = JNum(Len(files'[u].tweets.items))]_vars

\* A cleanup, in a later hour than the merge, removed a tweet and rewrote the
\* record with the new count and the new hour.
C11_Witness ==
    /\ last.op = "cleanup" /\ ~last.raised
    /\ last.users_cleaned = 1 /\ last.tweets_removed = 1
    /\ last.at > StartHour
    /\ files[UserA].kind = "object"
    /\ files[UserA].tweets = TweetList(<<TweetMid>>)
    /\ files[UserA].total_tweets = JNum(1)
    /\ files[UserA].last_updated = JStr(IsoFormat(last.at))

\* The elements of a list.
Items(tweets) == {tweets[i] : i \in 1..Len(tweets)}

\* What merge_new_tweets finds stored for u.
Existing(u) == IF HoldsList(u) THEN StoredTweets(u) ELSE <<>>

\* C12: a merge whose stored and newly appended tweets exceed the cap
\* returns, and with a successful write stores, exactly the cap, and no tweet
\* it dropped has a created_at above that of a tweet it kept; merging one
\* tweet newer than all of a full cache drops the last (oldest) stored tweet
\* and nothing else.
C12_EvictOldest ==
    [][(last'.op = "merge" /\ ~last'.raised /\ now' = now)
       => LET u == last'.username
              existing == Existing(u)
              offered == Items(existing) \cup Items(last'.new_tweets)
              kept == Items(last'.tweets)
          IN  /\ last'.io = "ok" => files'[u].tweets = TweetList(last'.tweets)
              /\ Len(existing) + last'.new_count > CacheCap
                    => /\ Len(last'.tweets) = CacheCap
                       /\ kept \subseteq offered
                       /\ \A k \in kept, d \in offered \ kept :
                             ~StrLess(SortKey(k).s, SortKey(d).s)
              /\ (/\ Len(existing) = CacheCap
                  /\ Len(last'.new_tweets) = 1
                  /\ \A e \in Items(existing) :
                        StrLess(SortKey(e).s, SortKey(last'.new_tweets[1]).s))
                    => last'.tweets =
                          <<last'.new_tweets[1]>> \o SubSeq(existing, 1, CacheCap - 1)]_vars

\* A batch of the newest and the oldest tweet met a stored tweet of the
\* middle age: both were appended, and the oldest was dropped.
C12_Witness ==
    /\ last.op = "merge" /\ ~last.raised /\ last.io = "ok"
    /\ last.new_tweets = <<TweetNew, TweetOld>>
    /\ last.new_count = 2
    /\ StoredTweets(UserA) = <<TweetNew, TweetMid>>

\* C13: a merge of two tweets into a store that holds none stores one tweet
\* if their (username, text, created_at) are identical and both tweets if
\* they differ in any component.
C13_TupleIdentity ==
    [][(/\ last'.op = "merge" /\ ~last'.raised /\ last'.io = "ok" /\ now' = now
        /\ Existing(last'.username) = <<>>
        /\ Len(last'.new_tweets) = 2)
       => LET first == last'.new_tweets[1]
              second == last'.new_tweets[2]
              stored == files'[last'.username].tweets.items
          IN  IF Identity(first) = Identity(second)
              THEN last'.new_count = 1 /\ stored = <<first>>
              ELSE last'.new_count = 2 /\ Items(stored) = {first, second}]_vars

\* C14: a step that is a call of get_cached_tweets_by_category,
\* needs_fresh_data, load_user_cache or get_cache_summary leaves every file of
\* the cache directory as it is (content and existence), whatever the files
\* hold and whether or not the call raises.
C14_ReadsDoNotMutate ==
    [][last'.op \in {"get_cached_tweets_by_category", "needs_fresh_data",
                     "load_user_cache", "get_cache_summary"}
       => files' = files]_vars

\* get_cache_summary counted the two tweets of a file, which still holds them.
C14_Witness ==
    /\ last.op = "get_cache_summary" /\ ~last.raised
    /\ last.total_users = 1 /\ last.total_tweets = 2
    /\ HoldsList(UserA) /\ Len(StoredTweets(UserA)) = 2

\* The tweets a call of get_cached_tweets_by_category returned, over all
\* categories.
Returned == UNION {Items(last.result[j].tweets) : j \in 1..Len(last.result)}

\* C15: no tweet that get_cached_tweets_by_category returns has a created_at
\* that parses as a time (with or without a UTC mark) at or before now minus
\* max_age_hours.
C15_AgeWindow ==
    (last.op = "get_cached_tweets_by_category" /\ ~last.raised)
    => \A tweet \in Returned :
           ~TweetTime(tweet).raised
               => TweetTime(tweet).h > last.at - last.max_age_hours

\* The stored tweets of u that the age filter keeps, in stored order.
FreshOf(u, cutoff_time) ==
    LET Keep(tweet) == IsFresh(tweet, cutoff_time)
    IN  SelectSeq(Existing(u), Keep)

\* The first n elements of a list, or all of a shorter one.
FirstOf(tweets, n) ==
    [i \in 1..(IF Len(tweets) < n THEN Len(tweets) ELSE n) |-> tweets[i]]

RECURSIVE Contribution(_, _)
\* What the users of one category contribute, user after user.
Contribution(usernames, cutoff_time) ==
    IF usernames = <<>> THEN <<>>
    ELSE FirstOf(FreshOf(Head(usernames), cutoff_time), UserCap)
            \o Contribution(Tail(usernames), cutoff_time)

RECURSIVE SumLen(_)
\* The number of tweets in a returned mapping.
SumLen(result) ==
    IF result = <<>> THEN 0 ELSE Len(Head(result).tweets) + SumLen(Tail(result))

\* The users an accounts_by_category lists, each once.
ListedUsers(accounts) ==
    UNION {Items(accounts[i].usernames) : i \in 1..Len(accounts)}

\* C17: the stats of get_cached_tweets_by_category: cache_hits is the number
\* of users (each counted once, in however many categories listed) with at
\* least one fresh tweet, total_cached the number of tweets returned,
\* total_categories the number of categories returned.
C17_Statistics ==
    (last.op = "get_cached_tweets_by_category" /\ ~last.raised)
    => /\ last.stats.cache_hits =
              Cardinality({u \in ListedUsers(last.accounts_by_category) :
                              FreshOf(u, last.at - last.max_age_hours) # <<>>})
       /\ last.stats.total_cached = SumLen(last.result)
       /\ last.stats.total_categories = Len(last.result)

\* C18: a cleanup_old_cache that returns (all its writes succeeding) deletes
\* no file, leaves no stored tweet whose created_at parses to a time before
\* now minus max_age_days, and leaves stored every tweet that is not such a
\* tweet.
C18_CleanupRemovesStaleOnly ==
    [][(last'.op = "cleanup" /\ ~last'.raised /\ now' = now)
       => LET cutoff_time == last'.at - last'.max_age_days * HoursPerDay
              Stale(tweet) ==
                  ~TweetTime(tweet).raised /\ TweetTime(tweet).h < cutoff_time
          IN  \A u \in Users :
                  HoldsList(u) =>
                      /\ files'[u].kind = "object" /\ files'[u].tweets.t = "list"
                      /\ \A tweet \in Items(files'[u].tweets.items) : ~Stale(tweet)
                      /\ \A tweet \in Items(StoredTweets(u)) :
                            ~Stale(tweet) => tweet \in Items(files'[u].tweets.items)]_vars

\* C19: when a process in merge_new_tweets saves (its write succeeding), the
\* record of the user becomes the list that process computed from its own
\* earlier load, stamped with the hour of the save, whatever another process
\* has stored in between.
C19_LastSaveWins ==
    [][\A p \in Procs :
          (/\ pending[p].pc = "loaded" /\ pending'[p].pc = "returned"
           /\ pending'[p].io = "ok")
          => files'[pending[p].username] =
                 ObjectFile(TweetList(pending[p].merged_tweets),
                            JStr(IsoFormat(now)),
                            JNum(Len(pending[p].merged_tweets)))]_vars

\* Both processes returned from a merge of one new tweet each, both writes
\* succeeded, and the store holds one tweet, below the cap: the tweet the
\* first process merged is not stored.
C19_Witness ==
    /\ \A p \in Procs :
          /\ pending[p].pc = "returned" /\ pending[p].io = "ok"
          /\ pending[p].username = UserA /\ pending[p].new_count = 1
    /\ last.op = "merge_save" /\ last.proc = 2
    /\ HoldsList(UserA)
    /\ Len(StoredTweets(UserA)) < CacheCap
    /\ StoredTweets(UserA) = pending[2].merged_tweets
    /\ \E tweet \in Items(pending[1].merged_tweets) : tweet \notin Items(StoredTweets(UserA))

\* C20: every merge_new_tweets whose write succeeds, whatever its batch and
\* its new_count, leaves the user's last_updated at the hour of the merge;
\* and needs_fresh_data with max_age_hours above 0 returns false as long as
\* no more than max_age_hours have passed since the hour of the latest save,
\* and true after that.
C20_MergeRefreshes ==
    [][/\ (last'.op = "merge" /\ ~last'.raised /\ last'.io = "ok" /\ now' = now)
            => /\ files'[last'.username].kind = "object"
               /\ files'[last'.username].last_updated = JStr(IsoFormat(now))
       /\ (/\ last'.op = "needs_fresh_data" /\ now' = now
           /\ last'.max_age_hours > 0
           /\ files[last'.username].kind = "object")
            => \E h \in StartHour..now :
                   /\ files[last'.username].last_updated = JStr(IsoFormat(h))
                   /\ ~last'.raised
                   /\ last'.ret <=> (now - h > last'.max_age_hours)]_vars

\* The store was last written by a merge that added nothing to an empty
\* store, max_age_hours before the test: the data is not stale.
C20_Witness ==
    /\ last.op = "needs_fresh_data" /\ ~last.raised /\ ~last.ret
    /\ last.max_age_hours > 0
    /\ last.at > StartHour + last.max_age_hours
    /\ HoldsList(UserA) /\ StoredTweets(UserA) = <<>>
    /\ files[UserA].last_updated = JStr(IsoFormat(last.at - last.max_age_hours))

\* C21: every tweet merge_new_tweets returns, and with a successful write
\* stores, is field for field a tweet that was stored before or a tweet of
\* the batch; an incoming tweet with the (username, text, created_at) of a
\* stored tweet and other engagement counts is not taken, and the stored
\* one stays as it is unless the cut at the cap drops it.
C21_Verbatim ==
    [][(last'.op = "merge" /\ ~last'.raised /\ now' = now)
       => LET u == last'.username
              existing == Existing(u)
              result == last'.tweets
          IN  /\ Items(result) \subseteq Items(existing) \cup Items(last'.new_tweets)
              /\ last'.io = "ok" => files'[u].tweets = TweetList(result)
              /\ \A e \in Items(existing), b \in Items(last'.new_tweets) :
                    (Identity(e) = Identity(b) /\ e # b)
                        => /\ b \notin Items(result)
                           /\ \/ e \in Items(result)
                              \/ Len(existing) + last'.new_count > CacheCap]_vars

\* TweetMid is stored with its first like count after a merge offered it
\* with a newer one: nothing was counted as new.
C21_Witness ==
    /\ last.op = "merge" /\ ~last.raised /\ last.io = "ok"
    /\ last.new_tweets = <<TweetMidLiked>>
    /\ last.new_count = 0
    /\ StoredTweets(UserA) = <<TweetMid>>

\* The (username, text, created_at) tuples of a list of tweets.
Identities(tweets) == {Identity(tweets[i]) : i \in 1..Len(tweets)}

\* C22: new_count is the number of distinct (username, text, created_at)
\* tuples in the batch that are not tuples of stored tweets.
C22_NewCount ==
    [][(last'.op = "merge" /\ ~last'.raised /\ now' = now)
       => last'.new_count =
              Cardinality(Identities(last'.new_tweets)
                              \ Identities(Existing(last'.username)))]_vars

\* The place of the first tweet equal to x in a list that holds it.
FirstAt(tweets, x) == CHOOSE i \in 1..Len(tweets) :
                          tweets[i] = x /\ \A j \in 1..(i - 1) : tweets[j] # x

\* x comes before y in the order of insertion: stored tweets in stored
\* order, then the new tweets in batch order.
InsertedBefore(existing, batch, x, y) ==
    IF x \in Items(existing)
    THEN y \in Items(existing) => FirstAt(existing, x) < FirstAt(existing, y)
    ELSE y \notin Items(existing) /\ FirstAt(batch, x) < FirstAt(batch, y)

\* C23: among tweets with an equal created_at, merge_new_tweets returns the
\* stored ones first in their stored order, then the new ones in batch
\* order, and where the cut at the cap falls among them it drops the later
\* inserted: new ones before stored ones.
C23_StableTies ==
    [][(last'.op = "merge" /\ ~last'.raised /\ now' = now)
       => LET existing == Existing(last'.username)
              batch == last'.new_tweets
              result == last'.tweets
              offered == Items(existing) \cup Items(batch)
          IN  /\ \A i, j \in 1..Len(result) :
                    (i < j /\ SortKey(result[i]) = SortKey(result[j]))
                        => InsertedBefore(existing, batch, result[i], result[j])
              /\ \A k \in Items(result), d \in offered \ Items(result) :
                    SortKey(k) = SortKey(d)
                        => InsertedBefore(existing, batch, k, d)]_vars

\* A store holding TweetTie met a batch with a new tweet of the same hour and
\* a newer one: the new tweet of that hour was counted and dropped, the
\* stored one stayed.
C23_Witness ==
    /\ last.op = "merge" /\ ~last.raised /\ last.io = "ok"
    /\ last.new_tweets = <<TweetThird, TweetNew>>
    /\ last.new_count = 2
    /\ StoredTweets(UserA) = <<TweetNew, TweetTie>>

\* C24: a merge_new_tweets whose write succeeds leaves stored as many tweets
\* as were stored plus new_count, or the cap if that is less; and when that
\* sum is within the cap every tweet stored before is still stored.
C24_AppendOnly ==
    [][(last'.op = "merge" /\ ~last'.raised /\ last'.io = "ok" /\ now' = now)
       => LET u == last'.username
              previous == Len(Existing(u))
              total == previous + last'.new_count
          IN  /\ files'[u].kind = "object" /\ files'[u].tweets.t = "list"
              /\ Len(files'[u].tweets.items) =
                     (IF total < CacheCap THEN total ELSE CacheCap)
              /\ Len(last'.tweets) = Len(files'[u].tweets.items)
              /\ total <= CacheCap
                    => Items(Existing(u)) \subseteq Items(files'[u].tweets.items)]_vars

\* One new tweet joined a stored one: both are stored.
C24_Witness ==
    /\ last.op = "merge" /\ ~last.raised /\ last.io = "ok"
    /\ last.new_tweets = <<TweetNew>>
    /\ last.new_count = 1
    /\ StoredTweets(UserA) = <<TweetNew, TweetOld>>

\* C25: a run of collect_comprehensive_tweets without force_refresh calls
\* get_user_tweets only for users for which needs_fresh_data returned true;
\* when there is no such user it makes no call and its output is what the
\* cache gave; and new_api_calls is the number of calls made.
C25_SmartRefresh ==
    (last.op = "collect" /\ ~last.raised /\ ~last.none /\ ~last.force_refresh)
    => LET stale == {last.users_to_refresh[i].username :
                        i \in 1..Len(last.users_to_refresh)}
       IN  /\ \A i \in 1..Len(last.fetched) : last.fetched[i] \in stale
           /\ last.users_to_refresh = <<>>
                 => last.fetched = <<>> /\ last.tweets_by_category = last.cached
           /\ last.new_api_calls = Len(last.fetched)

\* C26: a merge_new_tweets or a save_user_cache for one user leaves the file
\* of every other user as it is, whatever the username fields of the tweets
\* it is given and whatever its write does.
C26_OneKeyOnly ==
    [][(last'.op \in {"merge", "save_user_cache"} /\ now' = now)
       => \A v \in Users : v # last'.username => files'[v] = files[v]]_vars

\* A tweet whose username field names the other user was merged for UserA
\* and is stored there; the other user's stored tweets do not hold it.
C26_Witness ==
    /\ last.op = "merge" /\ ~last.raised /\ last.io = "ok"
    /\ last.username = UserA
    /\ last.new_tweets = <<TweetTie>> /\ last.new_count = 1
    /\ TweetTie.username = JStr(UserB)
    /\ TweetTie \in Items(StoredTweets(UserA))
    /\ HoldsList(UserB) /\ StoredTweets(UserB) # <<>>
    /\ TweetTie \notin Items(StoredTweets(UserB))

\* C27: a merge_new_tweets for a user whose file cannot be decoded returns as
\* new_count the number of distinct (username, text, created_at) tuples of
\* the batch and, its write succeeding, stores tweets of the batch only:
\* one per tuple, newest first, cut at the cap.
C27_MergeAfterCorruption ==
    [][(/\ last'.op = "merge" /\ ~last'.raised /\ last'.io = "ok" /\ now' = now
        /\ files[last'.username].kind = "corrupt")
       => LET u == last'.username
              distinct == Cardinality(Identities(last'.new_tweets))
          IN  /\ last'.new_count = distinct
              /\ files'[u].kind = "object"
              /\ files'[u].tweets = TweetList(last'.tweets)
              /\ Items(last'.tweets) \subseteq Items(last'.new_tweets)
              /\ NewestFirst(last'.tweets)
              /\ Len(last'.tweets) = (IF distinct < CacheCap THEN distinct ELSE CacheCap)]_vars

\* C28: a merge_new_tweets whose write fails does not raise and returns the
\* list and the new_count it returns when the write succeeds; the file is
\* left as it was or undecodable, so no last_updated is advanced; and the
\* same merge made again counts at least as many tweets as new.
C28_SilentWriteFailure ==
    [][/\ (last'.op = "merge" /\ last'.io # "ok" /\ now' = now)
            => LET u == last'.username
                   ok == merge_new_tweets(files, u, last'.new_tweets, now, "ok")
               IN  /\ ~last'.raised
                   /\ last'.tweets = ok.tweets
                   /\ last'.new_count = ok.new_count
                   /\ files'[u] \in {files[u], CorruptFile}
                   /\ \A v \in Users : v # u => files'[v] = files[v]
       /\ (/\ last.op = "merge" /\ last.io # "ok"
           /\ last'.op = "merge" /\ now' = now
           /\ last'.username = last.username
           /\ last'.new_tweets = last.new_tweets)
            => /\ ~last'.raised
               /\ last'.new_count >= last.new_count]_vars

\* A merge whose write could not open the file returned TweetNew as new and
\* both tweets as merged; the file still holds the one tweet it held.
C28_Witness ==
    /\ last.op = "merge" /\ ~last.raised /\ last.io = "open_fails"
    /\ last.new_tweets = <<TweetNew>>
    /\ last.new_count = 1
    /\ last.tweets = <<TweetNew, TweetOld>>
    /\ StoredTweets(UserA) = <<TweetOld>>

RemovedFrom(fs, fs_after, u) ==
    IF fs[u].kind = "object" /\ fs[u].tweets.t = "list"
       /\ fs_after[u].kind = "object" /\ fs_after[u].tweets.t = "list"
    THEN Len(fs[u].tweets.items) - Len(fs_after[u].tweets.items)
    ELSE 0

RECURSIVE SumRemoved(_, _, _)
SumRemoved(fs, fs_after, users) ==
    IF users = {} THEN 0
    ELSE LET u == CHOOSE x \in users : TRUE
         IN  RemovedFrom(fs, fs_after, u) + SumRemoved(fs, fs_after, users \ {u})

====
